---- MODULE Spec2Model ----
(***************************************************************************)
(* Model of src/app.py (V-Focus audit page): the load block that           *)
(* normalises an uploaded watch-history export, the date filtering that    *)
(* yields the 30-day and 365-day counts, and the audit loop that sends the *)
(* most recent titles to the external model in batches of batch_size and   *)
(* pairs the returned labels with the titles.                              *)
(*                                                                         *)
(* Text is modelled as a sequence of tokens.  A title is a sequence of     *)
(* words, where the literals "Watched " and "https://" are words of their  *)
(* own; a response text is a sequence of token records (markdown fences,   *)
(* whitespace, prose, JSON values).  str.replace, str.strip, json.loads,   *)
(* zip and the pandas calls are modelled by what they do on these tokens.  *)
(* A timestamp is a day number; NaT is pandas' missing timestamp.          *)
(***************************************************************************)
EXTENDS Integers, Sequences, FiniteSets, TLC

VARIABLES
    data,        \* the uploaded file as json.load sees it
    pc,          \* position of the script
    df,          \* the DataFrame of retained entries (Title, Time)
    now,         \* reference time of the date filtering
    df_1m,       \* entries of the last 30 days
    df_12m,      \* entries of the last 365 days
    statsShown,  \* the two metric cards have been rendered
    titles,      \* titles handed to the audit loop
    i,           \* loop variable of the audit loop
    results,     \* rows built by the audit loop
    requests,    \* batches sent to model.generate_content, in order
    response,    \* what the last external call returned
    progress,    \* last argument of progress_bar.progress, as num/den
    audit_df     \* rows handed to the chart and the detailed log

vars == <<data, pc, df, now, df_1m, df_12m, statsShown, titles, i, results,
          requests, response, progress, audit_df>>

----------------------------------------------------------------------------
(* Bounds of the model and constants of the program *)

MaxRecords == 3
MaxTitles == 21
LenSlack == 1

batch_size == 10
HeadLimit == 50
Days1m == 30
Days12m == 365

Min(a, b) == IF a <= b THEN a ELSE b

----------------------------------------------------------------------------
(* Timestamps *)

NaT == [kind |-> "NaT", day |-> 0]
Ts(d) == [kind |-> "ts", day |-> d]

\* a raw "time" field: an ISO-8601 string (its day), the empty string,
\* a string that is no timestamp, or no "time" key at all
RawTs(d) == [kind |-> "ts", day |-> d]
RawEmpty == [kind |-> "empty", day |-> 0]
RawBad == [kind |-> "bad", day |-> 0]
RawAbsent == [kind |-> "absent", day |-> 0]

----------------------------------------------------------------------------
(* Raw records of the export *)

Entry(hasTitle, title, hasUrl, time) ==
    [shape |-> "dict", hasTitle |-> hasTitle, title |-> title,
     hasUrl |-> hasUrl, time |-> time]

\* an element of the top-level list that is no JSON object (a number)
ScalarEntry ==
    [shape |-> "scalar", hasTitle |-> FALSE, title |-> <<>>,
     hasUrl |-> FALSE, time |-> RawAbsent]

ScenarioA ==
    << Entry(TRUE, <<"Watched ", "Learning Rust Basics">>, FALSE, RawTs(400)),
       Entry(TRUE, <<"Funny Prank Compilation">>, TRUE, RawTs(401)),
       Entry(TRUE, <<"https://", "ads.example">>, FALSE, RawTs(402)) >>

RawRecords ==
    { ScenarioA[1], ScenarioA[2], ScenarioA[3],
      Entry(TRUE, <<"Watched ", "a ", "Watched ", "b">>, TRUE, RawTs(0)),
      Entry(TRUE, <<"https://", "x">>, TRUE, RawTs(100)),
      Entry(TRUE, <<>>, TRUE, RawTs(380)),
      Entry(TRUE, <<"a">>, TRUE, RawEmpty),
      Entry(TRUE, <<"a">>, TRUE, RawBad),
      Entry(TRUE, <<"b">>, TRUE, RawAbsent),
      Entry(FALSE, <<>>, TRUE, RawTs(50)),
      ScalarEntry }

SeqsUpTo(S, n) == UNION { [1..m -> S] : m \in 0..n }

\* what json.load(uploaded_file) can yield: a list of records, a JSON
\* object, a JSON scalar, or a decoding error
Uploads ==
    { [kind |-> "list", recs |-> r] : r \in SeqsUpTo(RawRecords, MaxRecords) }
    \cup { [kind |-> k, recs |-> <<>>] : k \in {"object", "scalar", "invalid"} }

\* a well-formed export of n videos, oldest first
WellFormed(n) ==
    [kind |-> "list",
     recs |-> [k \in 1..n |->
                 Entry(TRUE, <<"Watched ", ToString(k)>>, TRUE, RawTs(k))]]

----------------------------------------------------------------------------
(* 2. LOAD DATA *)

\* str.replace(old, ""): every occurrence of old is removed
RECURSIVE StrReplace(_, _)
StrReplace(s, old) ==
    IF s = <<>> THEN <<>>
    ELSE IF Head(s) = old THEN StrReplace(Tail(s), old)
         ELSE <<Head(s)>> \o StrReplace(Tail(s), old)

\* the filter without the titleUrl test
Keep_TitleOnly(entry) == entry.hasTitle

\* the record filter of the load loop
Keep(entry) == entry.hasTitle /\ entry.hasUrl

\* the for loop that fills clean_data
RECURSIVE CleanData(_)
CleanData(recs) ==
    IF recs = <<>> THEN <<>>
    ELSE IF Keep(Head(recs))
         THEN << [Title |-> StrReplace(Head(recs).title, "Watched "),
                  Time |-> Head(recs).time] >> \o CleanData(Tail(recs))
         ELSE CleanData(Tail(recs))

\* to_datetime with errors='coerce': nothing raises
ParseFails_Coerce(t) == FALSE

\* pd.to_datetime(format='ISO8601') raises on a string that is no timestamp
ParseFails(t) == t.kind = "bad"

\* pd.to_datetime on one value: the empty string becomes NaT
ToDatetime(t) == IF t.kind = "ts" THEN Ts(t.day) ELSE NaT

\* the try block raises: json.load fails, data is not iterable as records,
\* an element is no dict, a kept entry has no 'time' key, clean_data is
\* empty (no 'Time' column), or a time fails to parse
LoadRaises(d) ==
    \/ d.kind # "list"
    \/ \E k \in DOMAIN d.recs : d.recs[k].shape # "dict"
    \/ \E k \in DOMAIN d.recs :
          Keep(d.recs[k]) /\ d.recs[k].time.kind = "absent"
    \/ CleanData(d.recs) = <<>>
    \/ \E k \in DOMAIN d.recs : Keep(d.recs[k]) /\ ParseFails(d.recs[k].time)

LoadedFrame(d) ==
    LET clean == CleanData(d.recs)
    IN  [k \in DOMAIN clean |->
           [Title |-> clean[k].Title, Time |-> ToDatetime(clean[k].Time)]]

LoadData ==
    /\ pc = "load"
    /\ IF LoadRaises(data)
       THEN /\ pc' = "stopped"
            /\ df' = df
       ELSE /\ pc' = "stats"
            /\ df' = LoadedFrame(data)
    /\ UNCHANGED <<data, now, df_1m, df_12m, statsShown, titles, i, results,
                   requests, response, progress, audit_df>>

----------------------------------------------------------------------------
(* 3. DATE FILTERING *)

\* the first row's time taken as the latest
MaxTime_FirstRow(frame) == IF frame = <<>> THEN NaT ELSE frame[1].Time

RECURSIVE MaxTime(_)
\* Series.max(): the latest timestamp, NaT skipped; NaT when there is none
MaxTime(frame) ==
    IF frame = <<>> THEN NaT
    ELSE LET rest == MaxTime(Tail(frame))
             t == Head(frame).Time
         IN  IF t.kind = "NaT" THEN rest
             ELSE IF rest.kind = "NaT" THEN t
             ELSE IF t.day >= rest.day THEN t ELSE rest

\* timestamp - timedelta(days)
MinusDays(t, days) == IF t.kind = "NaT" THEN NaT ELSE Ts(t.day - days)

\* t >= bound on timestamps: False when either side is NaT
GE(t, bound) == t.kind = "ts" /\ bound.kind = "ts" /\ t.day >= bound.day

Since(frame, bound) == SelectSeq(frame, LAMBDA r : GE(r.Time, bound))

DateFiltering ==
    /\ pc = "stats"
    /\ now' = MaxTime(df)
    /\ df_1m' = Since(df, MinusDays(now', Days1m))
    /\ df_12m' = Since(df, MinusDays(now', Days12m))
    /\ statsShown' = TRUE
    /\ pc' = "idle"
    /\ UNCHANGED <<data, df, titles, i, results, requests, response,
                   progress, audit_df>>

----------------------------------------------------------------------------
(* 4. AI ANALYSIS: the button handler up to the loop *)

\* a sorts before b in sort_values(by='Time', ascending=False): later
\* timestamps first, NaT last
Before(a, b) ==
    \/ a.kind = "ts" /\ b.kind = "NaT"
    \/ a.kind = "ts" /\ b.kind = "ts" /\ a.day > b.day

RECURSIVE Insert(_, _)
Insert(row, sorted) ==
    IF sorted = <<>> THEN <<row>>
    ELSE IF Before(Head(sorted).Time, row.Time)
         THEN <<Head(sorted)>> \o Insert(row, Tail(sorted))
         ELSE <<row>> \o sorted

RECURSIVE SortDesc(_)
\* df.sort_values(by='Time', ascending=False); rows with equal times keep
\* their order
SortDesc(frame) ==
    IF frame = <<>> THEN <<>>
    ELSE Insert(Head(frame), SortDesc(Tail(frame)))

\* .head(50)
HeadRows(frame) == SubSeq(frame, 1, Min(HeadLimit, Len(frame)))

RunAudit ==
    /\ pc = "idle"
    /\ LET df_sorted == HeadRows(SortDesc(df))
       IN  titles' = [k \in DOMAIN df_sorted |-> df_sorted[k].Title]
    /\ results' = <<>>
    /\ progress' = [num |-> 0, den |-> 1]
    /\ i' = 0
    /\ pc' = "loop"
    /\ UNCHANGED <<data, df, now, df_1m, df_12m, statsShown, requests,
                   response, audit_df>>

----------------------------------------------------------------------------
(* The external model's responses *)

FenceJson == [t |-> "fence_json", v |-> <<>>]
Fence == [t |-> "fence", v |-> <<>>]
Ws == [t |-> "ws", v |-> <<>>]
Prose == [t |-> "prose", v |-> <<>>]
\* JSON values as they appear in a text: a list of labels, a number, a string
JList(labels) == [t |-> "list", v |-> labels]
JNumber == [t |-> "number", v |-> <<>>]
JString == [t |-> "string", v |-> <<"A", "l", "i", "g", "n", "e", "d">>]

LabelPatterns ==
    { <<"Aligned", "Distraction", "Neutral">>,
      <<"Error", "Maybe", "Aligned">> }

Labels(len, pat) == [j \in 1..len |-> pat[((j - 1) % Len(pat)) + 1]]

JsonValues(L) ==
    { JList(Labels(len, pat)) :
        len \in { l \in (L - LenSlack)..(L + LenSlack) : l >= 0 },
        pat \in LabelPatterns }
    \cup {JNumber, JString}

\* the texts a response can carry for a batch of L titles: the bare value,
\* the value in a markdown fence, the value after a sentence, no value
Texts(L) ==
    { <<v>> : v \in JsonValues(L) }
    \cup { <<FenceJson, Ws, v, Ws, Fence>> : v \in JsonValues(L) }
    \cup { <<Prose, Ws, v>> : v \in JsonValues(L) }
    \cup { <<Prose>> }

\* generate_content raises (or response.text does), or a text comes back
Responses(L) ==
    { [raised |-> TRUE, text |-> <<>>] }
    \cup { [raised |-> FALSE, text |-> x] : x \in Texts(L) }

----------------------------------------------------------------------------
(* classify_batch *)

\* text.replace(tok, "")
RECURSIVE DropToken(_, _)
DropToken(text, tok) ==
    IF text = <<>> THEN <<>>
    ELSE IF Head(text).t = tok THEN DropToken(Tail(text), tok)
         ELSE <<Head(text)>> \o DropToken(Tail(text), tok)

RECURSIVE LStrip(_)
LStrip(text) ==
    IF text # <<>> /\ Head(text).t = "ws" THEN LStrip(Tail(text)) ELSE text

RECURSIVE RStrip(_)
RStrip(text) ==
    IF text # <<>> /\ text[Len(text)].t = "ws"
    THEN RStrip(SubSeq(text, 1, Len(text) - 1))
    ELSE text

\* str.strip()
Strip(text) == RStrip(LStrip(text))

\* the text stripped but with its fence markers left in
CleanText_KeepFences(text) == Strip(text)

\* response.text with both fence markers replaced by "", then .strip()
CleanText(text) == Strip(DropToken(DropToken(text, "fence_json"), "fence"))

IsJsonValue(tok) == tok.t \in {"list", "number", "string"}

\* json.loads accepts one JSON value with whitespace around it
JsonLoadsRaises(text) ==
    ~ (Len(Strip(text)) = 1 /\ IsJsonValue(Strip(text)[1]))

JsonLoads(text) == Strip(text)[1]

ErrorList(n) == JList([j \in 1..n |-> "Error"])

classify_batch(titles_list, resp) ==
    IF resp.raised \/ JsonLoadsRaises(CleanText(resp.text))
    THEN ErrorList(Len(titles_list))
    ELSE JsonLoads(CleanText(resp.text))

----------------------------------------------------------------------------
(* The audit loop *)

\* zip(batch, categories) raises TypeError on a value that is not iterable
Iterable(value) == value.t \in {"list", "string"}

\* for t, c in zip(batch, categories): results.append(...)
ZipRows(batch, categories) ==
    [k \in 1..Min(Len(batch), Len(categories)) |->
        [Title |-> batch[k], Category |-> categories[k]]]

\* st.progress raises on a value outside [0.0, 1.0]
ProgressRaises(p) == p.num < 0 \/ p.num > p.den

AuditIteration ==
    /\ pc = "loop"
    /\ i < Len(titles)
    /\ LET batch == SubSeq(titles, i + 1, Min(i + batch_size, Len(titles)))
       IN  \E r \in Responses(Len(batch)) :
             LET categories == classify_batch(batch, r)
                 shown == [num |-> i + batch_size, den |-> Len(titles)]
             IN  /\ requests' = Append(requests, batch)
                 /\ response' = r
                 /\ IF ~ Iterable(categories)
                    THEN /\ pc' = "aborted"
                         /\ UNCHANGED <<results, progress, i>>
                    ELSE /\ results' = results \o ZipRows(batch, categories.v)
                         /\ progress' = shown
                         /\ IF ProgressRaises(shown)
                            THEN pc' = "aborted" /\ i' = i
                            ELSE pc' = "loop" /\ i' = i + batch_size
    /\ UNCHANGED <<data, df, now, df_1m, df_12m, statsShown, titles, audit_df>>

----------------------------------------------------------------------------
(* Results visualisation *)

\* no row filtered out
FilterErrors_KeepAll(rows) == rows

\* audit_df[audit_df['Category'] != "Error"]
FilterErrors(rows) == SelectSeq(rows, LAMBDA r : r.Category # "Error")

\* pd.DataFrame([]) has no 'Category' column: the filter raises KeyError
Present ==
    /\ pc = "loop"
    /\ i >= Len(titles)
    /\ IF results = <<>>
       THEN pc' = "aborted" /\ audit_df' = audit_df
       ELSE pc' = "done" /\ audit_df' = FilterErrors(results)
    /\ UNCHANGED <<data, df, now, df_1m, df_12m, statsShown, titles, i,
                   results, requests, response, progress>>

----------------------------------------------------------------------------
\* a file has been uploaded and an API key entered: any upload of up to
\* MaxRecords raw records, or a well-formed export of up to MaxTitles videos
Init ==
    /\ data \in Uploads \cup { WellFormed(n) : n \in 1..MaxTitles }
    /\ pc = "load"
    /\ df = <<>>
    /\ now = NaT
    /\ df_1m = <<>>
    /\ df_12m = <<>>
    /\ statsShown = FALSE
    /\ titles = <<>>
    /\ i = 0
    /\ results = <<>>
    /\ requests = <<>>
    /\ response = [raised |-> FALSE, text |-> <<>>]
    /\ progress = [num |-> 0, den |-> 1]
    /\ audit_df = <<>>

Next == LoadData \/ DateFiltering \/ RunAudit \/ AuditIteration \/ Present

Spec == Init /\ [][Next]_vars

----------------------------------------------------------------------------
(* Vocabulary of the properties *)

FixedSet == {"Aligned", "Neutral", "Distraction"}

\* the k-th contiguous batch of the title list
NumBatches == (Len(titles) + batch_size - 1) \div batch_size
Batch(k) ==
    SubSeq(titles, (k - 1) * batch_size + 1, Min(k * batch_size, Len(titles)))

LastBatch == requests[Len(requests)]

\* the last m rows of results
LastRows(m) == SubSeq(results, Len(results) - m + 1, Len(results))

ErrorRows(batch) ==
    [k \in DOMAIN batch |-> [Title |-> batch[k], Category |-> "Error"]]

PairedRows(batch, labels) ==
    [k \in 1..Min(Len(batch), Len(labels)) |->
        [Title |-> batch[k], Category |-> labels[k]]]

ListTokens(text) == { k \in DOMAIN text : text[k].t = "list" }

\* the load went through
Loaded == pc \notin {"load", "stopped"}

\* a record that has both a title key and a titleUrl key
HasBothKeys(r) == r.shape = "dict" /\ r.hasTitle /\ r.hasUrl

KeptIdx == { k \in DOMAIN data.recs : HasBothKeys(data.recs[k]) }

\* the index in the input of the k-th record that has both keys
NthKept(k) ==
    CHOOSE j \in KeptIdx : Cardinality({ m \in KeptIdx : m <= j }) = k

----------------------------------------------------------------------------
(* C1: when the audit loop has run over all titles and exits, results has *)
(* exactly as many rows as there are titles and the k-th row carries the  *)
(* k-th title, whatever the responses were.                               *)
LoopOver == pc \in {"loop", "done"} /\ requests # <<>> /\ i >= Len(titles)

C1_ResultsMatchTitles ==
    LoopOver =>
        /\ Len(results) = Len(titles)
        /\ \A k \in DOMAIN results : results[k].Title = titles[k]

(* C2: when the external call of a batch fails or its response text holds *)
(* no list, the iteration appends one Error row per title of that batch   *)
(* to the unchanged earlier results, and the run goes on to the next      *)
(* batch when there is one.                                               *)
Undecodable(r) == r.raised \/ ListTokens(r.text) = {}

C2_FailedBatchAllError ==
    [][ (pc = "loop" /\ Len(requests') = Len(requests) + 1
            /\ Undecodable(response'))
        => /\ results' = results \o ErrorRows(requests'[Len(requests')])
           /\ (i + batch_size < Len(titles)
                 => pc' = "loop" /\ i' = i + batch_size) ]_vars

(* C4: the requests issued so far are the first batches of the contiguous *)
(* partition of the titles, one each and in order, and a run that has     *)
(* ended has requested every batch.                                       *)
C4_OneRequestPerBatch ==
    /\ Len(requests) <= NumBatches
    /\ \A k \in DOMAIN requests : requests[k] = Batch(k)
    /\ (pc \in {"done", "aborted"} => Len(requests) = NumBatches)

(* C10: the value handed to progress_bar.progress, (i + batch_size) /     *)
(* len(titles), lies within [0, 1] after every batch.                     *)
C10_ProgressInRange ==
    /\ 0 <= progress.num
    /\ progress.num <= progress.den

(* C8: the title of every retained entry is the record's raw title with   *)
(* a leading "Watched " removed and nothing else changed.                 *)
StripPrefix(title) ==
    IF title # <<>> /\ Head(title) = "Watched " THEN Tail(title) ELSE title

C8_PrefixStrippedOnly ==
    Loaded =>
        \A k \in DOMAIN df :
            df[k].Title = StripPrefix(data.recs[NthKept(k)].title)

(* C3 as stated: a response text that holds a list of labels, with or     *)
(* without other text around it, is parsed to that list and its labels    *)
(* are paired positionally with the titles of the batch.                  *)
TheList(text) == text[CHOOSE k \in ListTokens(text) : TRUE].v

OnlyFencesAround(text) ==
    /\ Cardinality(ListTokens(text)) = 1
    /\ \A k \in DOMAIN text :
          text[k].t \in {"list", "fence_json", "fence", "ws"}

ProseAround(text) ==
    /\ ListTokens(text) # {}
    /\ \E k \in DOMAIN text : text[k].t = "prose"

C5_PresentedInFixedSet ==
    pc = "done" =>
        \A k \in DOMAIN audit_df : audit_df[k].Category \in FixedSet

(* C5 amended: the rows handed to the chart and the detailed log are      *)
(* exactly the result rows whose category is not the literal Error; a     *)
(* label outside the fixed set other than Error is kept.                  *)
C5_PresentedNotError ==
    pc = "done" =>
        /\ \A k \in DOMAIN audit_df : audit_df[k].Category # "Error"
        /\ Len(audit_df) =
              Cardinality({ k \in DOMAIN results :
                              results[k].Category # "Error" })
        /\ \A k \in DOMAIN results :
              results[k].Category # "Error"
                  => \E j \in DOMAIN audit_df : audit_df[j] = results[k]

C5_Witness ==
    /\ pc = "done"
    /\ \E k \in DOMAIN audit_df : audit_df[k].Category = "Maybe"
    /\ \E k \in DOMAIN results : results[k].Category = "Error"

(* C6: when the top-level input is not a sequence of records, or a        *)
(* retained record's time is no timestamp, the run stops in the load      *)
(* block: no entries are kept, no window count is shown and no            *)
(* classification request is issued.                                      *)
LoadFailure(d) ==
    \/ d.kind # "list"
    \/ \E k \in DOMAIN d.recs :
          HasBothKeys(d.recs[k]) /\ d.recs[k].time.kind = "bad"

SpecRetains(r) ==
    /\ r.shape = "dict"
    /\ r.hasTitle /\ r.title # <<>>
    /\ r.time.kind \notin {"absent", "empty"}
    /\ \A k \in DOMAIN r.title : r.title[k] # "https://"

DaysOf(frame) ==
    { frame[k].Time.day : k \in { j \in DOMAIN frame : frame[j].Time.kind = "ts" } }

CountSince(frame, day) ==
    Cardinality({ k \in DOMAIN frame :
                    frame[k].Time.kind = "ts" /\ frame[k].Time.day >= day })

C9_WindowCounts ==
    statsShown =>
        /\ IF DaysOf(df) = {}
           THEN now = NaT /\ df_1m = <<>> /\ df_12m = <<>>
           ELSE /\ now.kind = "ts"
                /\ now.day \in DaysOf(df)
                /\ \A d \in DaysOf(df) : d <= now.day
                /\ Len(df_1m) = CountSince(df, now.day - 30)
                /\ Len(df_12m) = CountSince(df, now.day - 365)
        /\ Len(df_12m) >= Len(df_1m)

C9_Witness ==
    /\ statsShown
    /\ Len(df_1m) > 0
    /\ Len(df_1m) < Len(df_12m)
    /\ Len(df_12m) < Len(df)
====
